---- MODULE Spec2Model ----
(***************************************************************************)
(* Model of check-gpu-node.py: the classification of cluster nodes         *)
(* (is_ready, gpu_capacity, extract_node_info, list_gpu_nodes), the        *)
(* retry loop of send_slack_message, and the run main -> load_kube_config  *)
(* -> one_shot with its exit code.                                         *)
(*                                                                         *)
(* Python values are modelled as follows.                                  *)
(*   - an optional value (None or x) is the sequence <<>> or <<x>>;        *)
(*   - a capacity string is the sequence of its characters, so int(str(v)) *)
(*     is a real parse that can fail;                                      *)
(*   - a dict is a function on the set of its keys;                        *)
(*   - an exception message is the set of the known phrases it contains,   *)
(*     so `"..." in str(e)` is membership.                                 *)
(***************************************************************************)
EXTENDS Integers, Sequences, FiniteSets, TLC

VARIABLES
    \* classification of one node (specification SpecNode)
    node,            \* the V1Node handed to extract_node_info
    info,            \* None, or the dict extract_node_info returned
    \* one run of main (specification Spec)
    args,            \* the parsed arguments and the SLACK_WEBHOOK_URL variable
    pc,              \* where the run is
    nodes,           \* the items of api.list_node()
    gpu_nodes,       \* list_gpu_nodes: first component
    ready_gpu_nodes, \* list_gpu_nodes: second component
    attempt,         \* the loop variable of send_slack_message
    last,            \* None, or the outcome of the latest requests.post
    success,         \* None, or the boolean send_slack_message returned
    exitCode,        \* None, or the value main returned
    raised,          \* "" or the call that raised; main's handler takes it
    \* history of the run, read only by the properties
    attempts,        \* number of requests.post calls made
    delays,          \* number of time.sleep calls that returned
    slept,           \* total time spent in time.sleep
    nRetryable,      \* number of attempts that ended in a reset/aborted failure
    got200,          \* some attempt received status 200
    listCalls        \* number of api.list_node calls made

runVars == <<args, pc, nodes, gpu_nodes, ready_gpu_nodes, attempt, last, success,
             exitCode, raised, attempts, delays, slept, nRetryable, got200, listCalls>>

vars == <<node, info, args, pc, nodes, gpu_nodes, ready_gpu_nodes, attempt, last,
          success, exitCode, raised, attempts, delays, slept, nRetryable, got200,
          listCalls>>

---------------------------------------------------------------------------
\* Bounds of the model.

\* longest condition list of a node
MaxConds == 2

\* largest number of keys in a capacity mapping
MaxCapEntries == 2

\* longest node listing
MaxNodes == 2

\* largest --slack-retry-count
MaxRetries == 2

---------------------------------------------------------------------------
\* Optional values.

None == <<>>

Some(x) == <<x>>

---------------------------------------------------------------------------
\* Strings as sequences of characters, and Python's int().

DigitChars == {"0", "1", "2", "3", "4", "5", "6", "7", "8", "9"}

DigitVal(c) ==
    CASE c = "0" -> 0 [] c = "1" -> 1 [] c = "2" -> 2 [] c = "3" -> 3
      [] c = "4" -> 4 [] c = "5" -> 5 [] c = "6" -> 6 [] c = "7" -> 7
      [] c = "8" -> 8 [] c = "9" -> 9

RECURSIVE StripLeft(_)
StripLeft(s) ==
    IF s # <<>> /\ Head(s) = " " THEN StripLeft(Tail(s)) ELSE s

RECURSIVE StripRight(_)
StripRight(s) ==
    IF s # <<>> /\ s[Len(s)] = " " THEN StripRight(SubSeq(s, 1, Len(s) - 1)) ELSE s

RECURSIVE DigitsValue(_, _)
DigitsValue(s, acc) ==
    IF s = <<>> THEN acc ELSE DigitsValue(Tail(s), 10 * acc + DigitVal(Head(s)))

AllDigits(s) == s # <<>> /\ \A i \in 1..Len(s) : s[i] \in DigitChars

\* int(s) for a str s: surrounding blanks are dropped, one sign is allowed, the
\* rest is decimal digits; anything else raises ValueError, modelled as None.
ParseInt(s) ==
    LET t == StripRight(StripLeft(s))
        signed == t # <<>> /\ Head(t) \in {"-", "+"}
        body == IF signed THEN Tail(t) ELSE t
    IN  IF ~AllDigits(body) THEN None
        ELSE IF signed /\ Head(t) = "-" THEN Some(0 - DigitsValue(body, 0))
        ELSE Some(DigitsValue(body, 0))

---------------------------------------------------------------------------
\* Node classification.

GPU_RESOURCE_KEYS == <<"nvidia.com/gpu", "amd.com/gpu", "gpu.intel.com/i915", "intel.com/gpu">>

GpuKeySet == {GPU_RESOURCE_KEYS[i] : i \in 1..Len(GPU_RESOURCE_KEYS)}

is_ready(n) ==
    IF n.status = None \/ n.status[1].conditions = None
          \/ n.status[1].conditions[1] = <<>>
    THEN FALSE
    ELSE LET conds == n.status[1].conditions[1]
         IN  \E i \in 1..Len(conds) :
                 /\ conds[i].isV1NodeCondition
                 /\ conds[i].type = "Ready"
                 /\ conds[i].status = "True"

\* The loop of gpu_capacity from key number i on, caps being the dict so far.
RECURSIVE gpu_capacity_loop(_, _, _)
gpu_capacity_loop(capacity, i, caps) ==
    IF i > Len(GPU_RESOURCE_KEYS) THEN caps
    ELSE LET key == GPU_RESOURCE_KEYS[i]
             val == IF key \in DOMAIN capacity THEN Some(capacity[key]) ELSE None
         IN  IF val = None \/ val[1] = <<>>
             THEN gpu_capacity_loop(capacity, i + 1, caps)
             ELSE LET parsed == ParseInt(val[1])
                  IN  IF parsed = None
                      THEN gpu_capacity_loop(capacity, i + 1, caps)
                      ELSE gpu_capacity_loop(capacity, i + 1, caps @@ (key :> parsed[1]))

EmptyDict == [k \in {} |-> 0]

gpu_capacity(n) ==
    IF n.status = None \/ n.status[1].capacity = None
          \/ DOMAIN n.status[1].capacity[1] = {}
    THEN EmptyDict
    ELSE gpu_capacity_loop(n.status[1].capacity[1], 1, EmptyDict)

\* sum(caps.values())
RECURSIVE SumValues(_)
SumValues(caps) ==
    IF DOMAIN caps = {} THEN 0
    ELSE LET k == CHOOSE x \in DOMAIN caps : TRUE
         IN  caps[k] + SumValues([x \in DOMAIN caps \ {k} |-> caps[x]])

\* labels and taints are copied for display only and are left out.
extract_node_info(n) ==
    LET caps == gpu_capacity(n)
        total_gpus == IF DOMAIN caps # {} THEN SumValues(caps) ELSE 0
    IN  [name |-> n.name, ready |-> is_ready(n), gpus |-> total_gpus,
         gpu_breakdown |-> caps]

\* list_gpu_nodes_loop with the ready test moved out of the GPU test: every
\* ready node is appended to ready_gpu_nodes.
RECURSIVE ReadyOutsideGpuTest(_, _, _)
ReadyOutsideGpuTest(items, i, acc) ==
    IF i > Len(items) THEN acc
    ELSE LET inf == extract_node_info(items[i])
         IN  ReadyOutsideGpuTest(items, i + 1,
                 <<IF inf.gpus > 0 THEN Append(acc[1], inf) ELSE acc[1],
                   IF inf.ready THEN Append(acc[2], inf) ELSE acc[2]>>)

\* The loop of list_gpu_nodes from item i on; acc is <<gpu_nodes, ready_gpu_nodes>>.
RECURSIVE list_gpu_nodes_loop(_, _, _)
list_gpu_nodes_loop(items, i, acc) ==
    IF i > Len(items) THEN acc
    ELSE LET inf == extract_node_info(items[i])
         IN  IF inf.gpus > 0
             THEN list_gpu_nodes_loop(items, i + 1,
                      <<Append(acc[1], inf),
                        IF inf.ready THEN Append(acc[2], inf) ELSE acc[2]>>)
             ELSE list_gpu_nodes_loop(items, i + 1, acc)

\* listed is what api.list_node().items holds: None or a list.
list_gpu_nodes(listed) ==
    list_gpu_nodes_loop(IF listed = None THEN <<>> ELSE listed[1], 1, <<<<>>, <<>>>>)

---------------------------------------------------------------------------
\* The inputs the model draws from.

\* NodeCondition objects; the last one is an entry that is no V1NodeCondition.
CondPool ==
    { [isV1NodeCondition |-> TRUE,  type |-> "Ready",        status |-> "True"],
      [isV1NodeCondition |-> TRUE,  type |-> "Ready",        status |-> "False"],
      [isV1NodeCondition |-> TRUE,  type |-> "DiskPressure", status |-> "True"],
      [isV1NodeCondition |-> FALSE, type |-> "Ready",        status |-> "True"] }

CondLists == UNION {[1..n -> CondPool] : n \in 0..MaxConds}

CapKeys == GpuKeySet \cup {"cpu"}

\* capacity values: "", "0", "1", "10", "-1", "abc", " 2"
CapStrings ==
    { <<>>, <<"0">>, <<"1">>, <<"1", "0">>, <<"-", "1">>, <<"a", "b", "c">>,
      <<" ", "2">> }

CapMaps ==
    UNION {[D -> CapStrings] : D \in {E \in SUBSET CapKeys : Cardinality(E) <= MaxCapEntries}}

\* status.conditions and status.capacity: None or a value.
CondOpts == {None} \cup {Some(l) : l \in CondLists}

CapOpts == {None} \cup {Some(d) : d \in CapMaps}

ReadyTrue == <<[isV1NodeCondition |-> TRUE, type |-> "Ready", status |-> "True"]>>

ReadyFalse == <<[isV1NodeCondition |-> TRUE, type |-> "Ready", status |-> "False"]>>

\* The nodes a listing is made of: a ready GPU node, a GPU node that is not
\* ready, a ready node whose only GPU key holds "0", and a node without status.
NodePool ==
    { [name |-> "gpu-ready",
       status |-> Some([conditions |-> Some(ReadyTrue),
                        capacity |-> Some(("nvidia.com/gpu" :> <<"2">>) @@ ("cpu" :> <<"8">>))])],
      [name |-> "gpu-notready",
       status |-> Some([conditions |-> Some(ReadyFalse),
                        capacity |-> Some(("amd.com/gpu" :> <<"1">>))])],
      [name |-> "cpu-ready",
       status |-> Some([conditions |-> Some(ReadyTrue),
                        capacity |-> Some(("nvidia.com/gpu" :> <<"0">>) @@ ("cpu" :> <<"8">>))])],
      [name |-> "no-status", status |-> None] }

\* What api.list_node().items can hold.
Listings == {None} \cup {Some(l) : l \in UNION {[1..n -> NodePool] : n \in 0..MaxNodes}}

WebhookUrl == "https://hooks.slack.example/services/T"

\* the default of --slack-retry-delay
DefaultRetryDelay == 30

\* --slack-retry-delay is any int: a negative one, zero, the default.
RetryDelays == {-1, 0, DefaultRetryDelay}

\* The arguments that decide what the run does; --json, --kubeconfig and
\* --slack-username change only what is printed, loaded or sent.
\* "" stands for an option or variable that is unset or empty: both are falsy.
ArgSets ==
    [slack_webhook : {"", WebhookUrl},
     env_webhook : {"", WebhookUrl},
     slack_only_on_error : BOOLEAN,
     slack_retry_count : (-1)..MaxRetries,
     slack_retry_delay : RetryDelays]

ResetPhrase == "Connection reset by peer"

AbortedPhrase == "Connection aborted"

\* What one requests.post can do: return a response with a status code, or
\* raise; msg is the set of the two phrases that str(e) contains.
PostOutcomes ==
    { [kind |-> "response", status |-> 200, msg |-> {}],
      [kind |-> "response", status |-> 204, msg |-> {}],
      [kind |-> "response", status |-> 500, msg |-> {}],
      [kind |-> "ConnectionError", status |-> 0, msg |-> {ResetPhrase}],
      [kind |-> "ConnectionError", status |-> 0, msg |-> {AbortedPhrase}],
      [kind |-> "ConnectionError", status |-> 0, msg |-> {}],
      [kind |-> "Timeout", status |-> 0, msg |-> {AbortedPhrase}],
      [kind |-> "Timeout", status |-> 0, msg |-> {}],
      [kind |-> "RequestException", status |-> 0, msg |-> {AbortedPhrase}],
      [kind |-> "RequestException", status |-> 0, msg |-> {}],
      [kind |-> "Exception", status |-> 0, msg |-> {}] }

---------------------------------------------------------------------------
\* send_slack_message.

\* The test of the `except (ConnectionError, Timeout)` branch.
IsRetryable(o) ==
    /\ o.kind \in {"ConnectionError", "Timeout"}
    /\ (ResetPhrase \in o.msg \/ AbortedPhrase \in o.msg)

\* send_slack_message_attempt with the retry test dropping its phrase test:
\* every ConnectionError or Timeout is retried.
RetryEveryNetworkError(o, i, max_retries) ==
    IF o.kind = "response"
    THEN IF o.status = 200 THEN "return_true" ELSE "next"
    ELSE IF o.kind \in {"ConnectionError", "Timeout"}
    THEN IF i < max_retries THEN "sleep" ELSE "return_false"
    ELSE "return_false"

\* send_slack_message_attempt with the sleep left out: a retryable failure goes
\* straight to the next attempt.
RetryWithoutSleep(o, i, max_retries) ==
    IF o.kind = "response"
    THEN IF o.status = 200 THEN "return_true" ELSE "next"
    ELSE IF IsRetryable(o)
    THEN IF i < max_retries THEN "next" ELSE "return_false"
    ELSE "return_false"

\* send_slack_message_attempt with `attempt <= max_retries` for
\* `attempt < max_retries`.
RetryOnceTooOften(o, i, max_retries) ==
    IF o.kind = "response"
    THEN IF o.status = 200 THEN "return_true" ELSE "next"
    ELSE IF IsRetryable(o)
    THEN IF i <= max_retries THEN "sleep" ELSE "return_false"
    ELSE "return_false"

\* What one pass of the loop body does with the outcome o of its POST:
\*   "return_true"  the response is 200;
\*   "next"         another response: it is printed and the loop goes on;
\*   "sleep"        time.sleep(retry_delay), then continue;
\*   "return_false" the other branches.
send_slack_message_attempt(o, i, max_retries) ==
    IF o.kind = "response"
    THEN IF o.status = 200 THEN "return_true" ELSE "next"
    ELSE IF IsRetryable(o)
    THEN IF i < max_retries THEN "sleep" ELSE "return_false"
    ELSE "return_false"

\* range(max_retries + 1) yields i.
InRange(i, max_retries) == 0 <= i /\ i < max_retries + 1

get_slack_webhook_url(a) ==
    IF a.slack_webhook # "" THEN a.slack_webhook ELSE a.env_webhook

should_send_slack_message(a, gpus, readys) ==
    IF get_slack_webhook_url(a) = "" THEN FALSE
    ELSE IF a.slack_only_on_error THEN Len(readys) = 0
    ELSE TRUE

\* one_shot_return with the codes of the two unhealthy verdicts exchanged.
ExitCodesSwapped(gpus, readys) ==
    IF readys # <<>> THEN 0
    ELSE IF gpus # <<>> /\ readys = <<>> THEN 2
    ELSE 3

\* The value one_shot returns.
one_shot_return(gpus, readys) ==
    IF readys # <<>> THEN 0
    ELSE IF gpus # <<>> /\ readys = <<>> THEN 3
    ELSE 2

---------------------------------------------------------------------------
\* One run of main.

Init ==
    /\ node = [name |-> "", status |-> None]
    /\ info = None
    /\ args \in ArgSets
    /\ pc = "main"
    /\ nodes = <<>>
    /\ gpu_nodes = <<>>
    /\ ready_gpu_nodes = <<>>
    /\ attempt = 0
    /\ last = None
    /\ success = None
    /\ exitCode = None
    /\ raised = ""
    /\ attempts = 0
    /\ delays = 0
    /\ slept = 0
    /\ nRetryable = 0
    /\ got200 = FALSE
    /\ listCalls = 0

\* An exception reaches the handler of main, which returns 1.
Escapes(from) ==
    /\ pc' = "done"
    /\ exitCode' = Some(1)
    /\ raised' = from

\* send_slack_message returns ok to one_shot.
Returns(ok) ==
    /\ pc' = "report"
    /\ success' = Some(ok)

\* main: load_kube_config(args) returns.
LoadKubeConfig ==
    /\ pc = "main"
    /\ pc' = "one_shot"
    /\ UNCHANGED <<node, info, args, nodes, gpu_nodes, ready_gpu_nodes, attempt, last,
                   success, exitCode, raised, attempts, delays, slept, nRetryable,
                   got200, listCalls>>

\* main: load_kube_config(args) raises.
LoadKubeConfigFails ==
    /\ pc = "main"
    /\ Escapes("load_kube_config")
    /\ UNCHANGED <<node, info, args, nodes, gpu_nodes, ready_gpu_nodes, attempt, last,
                   success, attempts, delays, slept, nRetryable, got200, listCalls>>

\* one_shot: list_gpu_nodes(api), the listing succeeding with `listed`.
ListNodes(listed) ==
    /\ pc = "one_shot"
    /\ listCalls' = listCalls + 1
    /\ nodes' = (IF listed = None THEN <<>> ELSE listed[1])
    /\ gpu_nodes' = list_gpu_nodes(listed)[1]
    /\ ready_gpu_nodes' = list_gpu_nodes(listed)[2]
    /\ pc' = "notify"
    /\ UNCHANGED <<node, info, args, attempt, last, success, exitCode, raised, attempts,
                   delays, slept, nRetryable, got200>>

\* ListNodesFails with the exception swallowed: one_shot goes on with no nodes.
ListFailureSwallowed ==
    /\ pc = "one_shot"
    /\ listCalls' = listCalls + 1
    /\ raised' = "list_node"
    /\ pc' = "notify"
    /\ UNCHANGED <<node, info, args, nodes, gpu_nodes, ready_gpu_nodes, attempt, last,
                   success, exitCode, attempts, delays, slept, nRetryable, got200>>

\* one_shot: api.list_node() raises.
ListNodesFails ==
    /\ pc = "one_shot"
    /\ listCalls' = listCalls + 1
    /\ Escapes("list_node")
    /\ UNCHANGED <<node, info, args, nodes, gpu_nodes, ready_gpu_nodes, attempt, last,
                   success, attempts, delays, slept, nRetryable, got200>>

\* one_shot: the decision to notify, and the entry of send_slack_message up to
\* its first POST.
Notify ==
    /\ pc = "notify"
    /\ IF should_send_slack_message(args, gpu_nodes, ready_gpu_nodes)
          /\ get_slack_webhook_url(args) # ""
       THEN IF get_slack_webhook_url(args) = "" THEN Returns(FALSE)
            ELSE IF InRange(0, args.slack_retry_count)
            THEN pc' = "attempting" /\ success' = success
            ELSE Returns(FALSE)
       ELSE pc' = "report" /\ success' = success
    /\ attempt' = 0
    /\ UNCHANGED <<node, info, args, nodes, gpu_nodes, ready_gpu_nodes, last, exitCode,
                   raised, attempts, delays, slept, nRetryable, got200, listCalls>>

\* send_slack_message: one requests.post with outcome o, and what the loop body
\* does with it up to the next POST, the sleep or the return.
Post(o) ==
    /\ pc = "attempting"
    /\ attempts' = attempts + 1
    /\ last' = Some(o)
    /\ got200' = (got200 \/ (o.kind = "response" /\ o.status = 200))
    /\ nRetryable' = (IF IsRetryable(o) THEN nRetryable + 1 ELSE nRetryable)
    /\ LET step == send_slack_message_attempt(o, attempt, args.slack_retry_count)
       IN  CASE step = "return_true" -> Returns(TRUE) /\ attempt' = attempt
             [] step = "return_false" -> Returns(FALSE) /\ attempt' = attempt
             [] step = "sleep" ->
                    pc' = "sleeping" /\ success' = success /\ attempt' = attempt
             [] step = "next" ->
                    IF InRange(attempt + 1, args.slack_retry_count)
                    THEN pc' = "attempting" /\ success' = success
                         /\ attempt' = attempt + 1
                    ELSE Returns(FALSE) /\ attempt' = attempt
    /\ UNCHANGED <<node, info, args, nodes, gpu_nodes, ready_gpu_nodes, exitCode, raised,
                   delays, slept, listCalls>>

\* send_slack_message: time.sleep(retry_delay) and `continue`, which takes the
\* next value of the range or leaves the loop for `return False`. time.sleep raises
\* ValueError on a negative length; the call stands in an except block, so no
\* handler of send_slack_message catches it.
Sleep ==
    /\ pc = "sleeping"
    /\ IF args.slack_retry_delay < 0
       THEN /\ Escapes("time.sleep")
            /\ UNCHANGED <<attempt, delays, slept, success>>
       ELSE /\ delays' = delays + 1
            /\ slept' = slept + args.slack_retry_delay
            /\ IF InRange(attempt + 1, args.slack_retry_count)
               THEN pc' = "attempting" /\ success' = success /\ attempt' = attempt + 1
               ELSE Returns(FALSE) /\ attempt' = attempt
            /\ UNCHANGED <<exitCode, raised>>
    /\ UNCHANGED <<node, info, args, nodes, gpu_nodes, ready_gpu_nodes, last, attempts,
                   nRetryable, got200, listCalls>>

\* one_shot: the report is printed and the exit code returned through main.
Report ==
    /\ pc = "report"
    /\ exitCode' = Some(one_shot_return(gpu_nodes, ready_gpu_nodes))
    /\ pc' = "done"
    /\ UNCHANGED <<node, info, args, nodes, gpu_nodes, ready_gpu_nodes, attempt, last,
                   success, raised, attempts, delays, slept, nRetryable, got200,
                   listCalls>>

Next ==
    \/ LoadKubeConfig
    \/ LoadKubeConfigFails
    \/ \E listed \in Listings : ListNodes(listed)
    \/ ListNodesFails
    \/ Notify
    \/ \E o \in PostOutcomes : Post(o)
    \/ Sleep
    \/ Report

Spec == Init /\ [][Next]_vars

---------------------------------------------------------------------------
\* The classification of one node.

InitNode ==
    /\ \/ node = [name |-> "node-a", status |-> None]
       \/ \E c \in CondOpts, m \in CapOpts :
              node = [name |-> "node-a",
                      status |-> Some([conditions |-> c, capacity |-> m])]
    /\ info = None
    /\ args = [slack_webhook |-> "", env_webhook |-> "", slack_only_on_error |-> FALSE,
               slack_retry_count |-> 0, slack_retry_delay |-> 0]
    /\ pc = "classify"
    /\ nodes = <<>>
    /\ gpu_nodes = <<>>
    /\ ready_gpu_nodes = <<>>
    /\ attempt = 0
    /\ last = None
    /\ success = None
    /\ exitCode = None
    /\ raised = ""
    /\ attempts = 0
    /\ delays = 0
    /\ slept = 0
    /\ nRetryable = 0
    /\ got200 = FALSE
    /\ listCalls = 0

\* extract_node_info(node)
Classify ==
    /\ info = None
    /\ info' = Some(extract_node_info(node))
    /\ UNCHANGED node
    /\ UNCHANGED runVars

NextNode == Classify

SpecNode == InitNode /\ [][NextNode]_vars

---------------------------------------------------------------------------
\* Properties of send_slack_message.

\* The classes of outcome the properties speak of, stated on the outcome alone.
Is200(o) == o.kind = "response" /\ o.status = 200

IsNonSuccessResponse(o) == o.kind = "response" /\ o.status \notin 200..299

IsResetOrAborted(o) ==
    /\ o.kind \in {"ConnectionError", "Timeout"}
    /\ o.msg \cap {ResetPhrase, AbortedPhrase} # {}

IsOtherFailure(o) == o.kind # "response" /\ ~IsResetOrAborted(o)

max_retries == args.slack_retry_count

retry_delay == args.slack_retry_delay

\* C1: once an attempt has received a response whose status is no success
\* status, send_slack_message has returned false: that attempt was the last.
C1_NonSuccessResponseIsFinal ==
    (max_retries >= 0 /\ last # None /\ IsNonSuccessResponse(last[1]))
        => (pc \in {"report", "done"} /\ success = Some(FALSE))

C3_BoundedAttemptsAndDelays ==
    max_retries >= 0 =>
        /\ attempts <= max_retries + 1
        /\ delays <= max_retries
        /\ slept = delays * retry_delay
        /\ (retry_delay >= 0 => slept <= max_retries * retry_delay)
        /\ (nRetryable = max_retries + 1 =>
               /\ pc \in {"report", "done"}
               /\ success = Some(FALSE)
               /\ attempts = max_retries + 1
               /\ delays = max_retries)

\* Every attempt of a call with two retries failed with a reset or aborted failure.
C3_Witness ==
    /\ max_retries = 2
    /\ retry_delay = DefaultRetryDelay
    /\ nRetryable = 3
    /\ pc = "done"

C5_TrueIffStatus200 ==
    /\ (success # None => (success[1] <=> got200))
    /\ (got200 => (/\ Is200(last[1])
                   /\ success = Some(TRUE)
                   /\ pc \in {"report", "done"}))
    /\ ((pc \in {"report", "done"} /\ attempts > 0 /\ ~got200)
            => success = Some(FALSE))

\* A 200 on the second attempt, after another status on the first.
C5_Witness ==
    /\ success = Some(TRUE)
    /\ attempts = 2
    /\ nRetryable = 0
    /\ pc = "done"

---------------------------------------------------------------------------
\* Properties of the classification.

\* sum of a dict's values, summed over the keys in the order of GPU_RESOURCE_KEYS
RECURSIVE SumOverKeys(_, _)
SumOverKeys(d, i) ==
    IF i > Len(GPU_RESOURCE_KEYS) THEN 0
    ELSE (IF GPU_RESOURCE_KEYS[i] \in DOMAIN d THEN d[GPU_RESOURCE_KEYS[i]] ELSE 0)
           + SumOverKeys(d, i + 1)

\* C6: every entry of the gpu_breakdown of a classified node has a recognized
\* key and a strictly positive value, and gpus is the sum of the entries.
C6_BreakdownPositive ==
    info # None =>
        /\ \A k \in DOMAIN info[1].gpu_breakdown :
               k \in GpuKeySet /\ info[1].gpu_breakdown[k] > 0
        /\ info[1].gpus = SumOverKeys(info[1].gpu_breakdown, 1)

IsGpuInfo(x) == x.gpus > 0

IsReadyInfo(x) == x.ready

\* C8: after the listing, gpu_nodes is the subsequence of the classified
\* listing of the nodes with gpus > 0 and ready_gpu_nodes the subsequence of
\* gpu_nodes of the ready ones, so |ready_gpu_nodes| <= |gpu_nodes| <= |nodes|.
C8_ListsAreSubsequences ==
    LET infos == [i \in 1..Len(nodes) |-> extract_node_info(nodes[i])]
    IN  /\ gpu_nodes = SelectSeq(infos, IsGpuInfo)
        /\ ready_gpu_nodes = SelectSeq(gpu_nodes, IsReadyInfo)
        /\ Len(ready_gpu_nodes) <= Len(gpu_nodes)
        /\ Len(gpu_nodes) <= Len(nodes)
        /\ \A i \in 1..Len(gpu_nodes) : gpu_nodes[i].gpus > 0
        /\ \A i \in 1..Len(ready_gpu_nodes) :
               ready_gpu_nodes[i].gpus > 0 /\ ready_gpu_nodes[i].ready

\* A listing of a ready non-GPU node followed by a ready GPU node.
C8_Witness ==
    /\ pc = "done"
    /\ Len(nodes) = 2
    /\ nodes[1].name = "cpu-ready"
    /\ nodes[2].name = "gpu-ready"
    /\ Len(gpu_nodes) = 1
    /\ Len(ready_gpu_nodes) = 1

---------------------------------------------------------------------------
\* Properties of the run.

Healthy == Len(ready_gpu_nodes) >= 1

DegradedNoReadyGpu == Len(gpu_nodes) >= 1 /\ Len(ready_gpu_nodes) = 0

NoGpu == Len(gpu_nodes) = 0

\* C7: exactly one of the three verdicts holds of what list_gpu_nodes returned;
\* a run that ends without an exception returns 0, 3, 2 for Healthy,
\* DegradedNoReadyGpu, NoGpu; and 1 is returned only when a call raised.
C7_VerdictAndExitCode ==
    /\ (Healthy \/ DegradedNoReadyGpu \/ NoGpu)
    /\ ~(Healthy /\ DegradedNoReadyGpu)
    /\ ~(Healthy /\ NoGpu)
    /\ ~(DegradedNoReadyGpu /\ NoGpu)
    /\ ((pc = "done" /\ raised = "") =>
           /\ (Healthy => exitCode = Some(0))
           /\ (DegradedNoReadyGpu => exitCode = Some(3))
           /\ (NoGpu => exitCode = Some(2)))
    /\ (exitCode = Some(1) => raised # "")
    /\ (pc = "done" <=> exitCode # None)

\* A run over a listing with GPU nodes none of which is ready.
C7_Witness ==
    /\ pc = "done"
    /\ raised = ""
    /\ DegradedNoReadyGpu
    /\ exitCode = Some(3)

\* C9: a webhook attempt is made only after the one listing has completed;
\* when the listing fails the run ends with 1, the listing having been called
\* once and no attempt made.
C9_ListingBeforeDelivery ==
    /\ listCalls <= 1
    /\ (attempts > 0 => (listCalls = 1 /\ raised # "list_node"
                           /\ pc \notin {"main", "one_shot"}))
    /\ (pc \in {"attempting", "sleeping"} => listCalls = 1)
    /\ (raised = "list_node" =>
           /\ pc = "done"
           /\ exitCode = Some(1)
           /\ listCalls = 1
           /\ attempts = 0
           /\ success = None)

\* The listing failed in a run that has a webhook and always notifies.
C9_Witness ==
    /\ raised = "list_node"
    /\ pc = "done"
    /\ get_slack_webhook_url(args) # ""
    /\ ~args.slack_only_on_error

\* C10: a run whose listing succeeded ends with the code of its verdict, and
\* send_slack_message, when called, has returned a boolean.
C10_DeliveryNeverAffectsExitCode ==
    (pc = "done" /\ listCalls = 1 /\ raised # "list_node") =>
        /\ exitCode = Some(IF Len(ready_gpu_nodes) >= 1 THEN 0
                           ELSE IF Len(gpu_nodes) >= 1 THEN 3 ELSE 2)
        /\ (attempts > 0 => success \in {Some(TRUE), Some(FALSE)})

====
